---- MODULE Spec2Model ----
(***************************************************************************)
(* Model of bossoidc2/backend.py: the audience and required-claims gates,  *)
(* role extraction, and the reconciliation of a Keycloak login against the *)
(* Django user table and the Keycloak link table (get_user_with_id).       *)
(* Every ORM call of get_user_with_id is one atomic step of a login, so    *)
(* that logins served by different workers interleave between the calls.   *)
(***************************************************************************)
EXTENDS Integers, Sequences, FiniteSets, TLC

(* ------------------------------ bounds --------------------------------- *)

\* username_field.max_length of the user model, scaled down
MaxUsernameLen == 2

\* number of logins served in one behaviour
MaxLogins == 2

\* number of keys in a fetched key set
MaxKeys == 2

\* number of times get_roles is called on one decoded token
MaxCalls == 2

\* the request workers that serve logins at the same time
Procs == {"w1", "w2"}

\* datetime.datetime.now() of a login; rows never logged in carry 0
Now == 1

(* ------------------------------ domains -------------------------------- *)

\* strings that the code measures or iterates are sequences of characters
NameA == <<"a">>

\* settings.KEYCLOAK_ADMIN_USER, default 'bossadmin'
KEYCLOAK_ADMIN_USER == <<"b", "a">>

\* a username one character longer than the user model allows; the admin
\* username is a prefix of it
LongName == KEYCLOAK_ADMIN_USER \o [i \in 1..(MaxUsernameLen - 1) |-> "x"]

Usernames == {NameA, KEYCLOAK_ADMIN_USER, LongName}

Subs == {"kc-1", "kc-2"}

AudBoss == <<"b", "o">>

AudOther == <<"o">>

\* the aud claim: missing, a single string, or a list of strings
AudMissing == [kind |-> "missing", s |-> <<>>, l |-> <<>>]

AudStr(s) == [kind |-> "str", s |-> s, l |-> <<>>]

AudList(l) == [kind |-> "list", s |-> <<>>, l |-> l]

AudValues ==
    {AudMissing, AudStr(AudBoss), AudStr(AudOther), AudList(<<>>),
     AudList(<<AudOther>>), AudList(<<AudOther, AudBoss>>)}

\* keys a userinfo dictionary may carry
ClaimKeys ==
    {"sub", "preferred_username", "first_name", "given_name",
     "christian_name", "family_name", "last_name", "email"}

\* a userinfo dictionary: the set of its keys and the value under each key
UserInfo(keys, sub, username) ==
    [keys |-> keys, sub |-> sub, preferred_username |-> username,
     first_name |-> "fn", given_name |-> "gn", christian_name |-> "cn",
     family_name |-> "fam", last_name |-> "ln", email |-> "mail"]

\* a decoded access token: aud, realm_access and the items of
\* resource_access in dictionary order; interned tells whether the key
\* objects of resource_access are the very objects of the code's literals
Token(aud, realmRoles) ==
    [aud |-> aud,
     realm_access |-> [has |-> TRUE, hasRoles |-> TRUE, roles |-> realmRoles],
     resource_access |-> <<>>,
     interned |-> FALSE]

\* an entry of resource_access: the client's name and its roles list, if any
Client(name, hasRoles, roles) ==
    [name |-> name, hasRoles |-> hasRoles, roles |-> roles]

\* the resource_access dictionaries of the tokens handed to get_roles
ResourceAccesses ==
    {<<>>,
     <<Client("account", TRUE, <<"a">>)>>,
     <<Client("myclient", TRUE, <<"b">>)>>,
     <<Client("myclient", FALSE, <<>>)>>,
     <<Client("account", TRUE, <<"a">>), Client("myclient", TRUE, <<"b">>)>>,
     <<Client("myclient", TRUE, <<"b">>), Client("account", TRUE, <<"a">>)>>,
     <<Client("account", FALSE, <<>>), Client("myclient", TRUE, <<"b">>)>>}

\* the realm_access entries of the tokens handed to get_roles
RealmAccesses ==
    {[has |-> FALSE, hasRoles |-> FALSE, roles |-> <<>>],
     [has |-> TRUE, hasRoles |-> FALSE, roles |-> <<>>],
     [has |-> TRUE, hasRoles |-> TRUE, roles |-> <<>>],
     [has |-> TRUE, hasRoles |-> TRUE, roles |-> <<"a">>]}

RoleTokens ==
    {[aud |-> AudStr(AudBoss), realm_access |-> r, resource_access |-> c,
      interned |-> i] :
        r \in RealmAccesses, c \in ResourceAccesses, i \in BOOLEAN}

RoleLists == {<<>>, <<"admin">>, <<"superuser">>}

\* the role lists of the logins that race
RaceRoleLists == {<<>>, <<"superuser">>}

\* key sets of the userinfo handed to get_or_create_user
KeySets ==
    {{}, {"sub"}, {"preferred_username"}, {"sub", "preferred_username"},
     {"preferred_username", "email"}, {"sub", "preferred_username", "email"},
     {"sub", "preferred_username", "first_name", "given_name"},
     {"sub", "preferred_username", "given_name", "christian_name",
      "family_name"},
     {"sub", "preferred_username", "first_name", "christian_name",
      "family_name", "last_name"}}

\* a row of the user table; id 0 stands for None
NoUser ==
    [id |-> 0, username |-> <<>>, first_name |-> "", last_name |-> "",
     email |-> "", last_login |-> 0, is_staff |-> FALSE,
     is_superuser |-> FALSE]

\* an account that exists before any login and holds permissions
PreUser ==
    [id |-> 1, username |-> NameA, first_name |-> "", last_name |-> "",
     email |-> "", last_login |-> 0, is_staff |-> TRUE,
     is_superuser |-> TRUE]

DefaultSettings ==
    [hasOIDC_AUTH |-> TRUE, OIDC_AUDIENCES |-> <<AudBoss>>,
     OIDC_CLAIMS_VERIFICATION |-> <<"preferred_username", "sub">>]

\* settings without OIDC_AUTH, without OIDC_AUDIENCES in it, and with
\* OIDC_CLAIMS_VERIFICATION set to other lists than the default
SettingsChoices ==
    {DefaultSettings,
     [DefaultSettings EXCEPT !.hasOIDC_AUTH = FALSE],
     [DefaultSettings EXCEPT !.OIDC_AUDIENCES = <<>>],
     [DefaultSettings EXCEPT !.OIDC_CLAIMS_VERIFICATION = <<"email">>],
     [DefaultSettings EXCEPT !.OIDC_CLAIMS_VERIFICATION =
                                 <<"preferred_username", "sub", "email">>]}

Range(s) == {s[i] : i \in 1..Len(s)}

(* --------------------------- pure functions ---------------------------- *)

\* faulty variant of check_username: the length is never checked
check_username_off(username) == FALSE

\* check_username: TRUE when AuthenticationFailed is raised
check_username(username) == Len(username) > MaxUsernameLen

SetKey(d, k, v) == [d EXCEPT !.keys = @ \cup {k}, ![k] = v]

\* faulty variant of openid_data: an alias never replaces a value that an
\* alias listed before it has supplied
openid_data_first_wins(ui) ==
    LET d0 == [keys |-> {"last_login"}, first_name |-> "", last_name |-> "",
               email |-> "", last_login |-> Now]
        d1 == IF "first_name" \in ui.keys
              THEN SetKey(d0, "first_name", ui.first_name) ELSE d0
        d2 == IF "given_name" \in ui.keys /\ "first_name" \notin d1.keys
              THEN SetKey(d1, "first_name", ui.given_name) ELSE d1
        d3 == IF "christian_name" \in ui.keys /\ "first_name" \notin d2.keys
              THEN SetKey(d2, "first_name", ui.christian_name) ELSE d2
        d4 == IF "family_name" \in ui.keys
              THEN SetKey(d3, "last_name", ui.family_name) ELSE d3
        d5 == IF "last_name" \in ui.keys /\ "last_name" \notin d4.keys
              THEN SetKey(d4, "last_name", ui.last_name) ELSE d4
        d6 == IF "email" \in ui.keys
              THEN SetKey(d5, "email", ui.email) ELSE d5
    IN  d6

\* lines 139-152: the defaults dictionary built at the top of
\* get_user_with_id
openid_data(ui) ==
    LET d0 == [keys |-> {"last_login"}, first_name |-> "", last_name |-> "",
               email |-> "", last_login |-> Now]
        d1 == IF "first_name" \in ui.keys
              THEN SetKey(d0, "first_name", ui.first_name) ELSE d0
        d2 == IF "given_name" \in ui.keys
              THEN SetKey(d1, "first_name", ui.given_name) ELSE d1
        d3 == IF "christian_name" \in ui.keys
              THEN SetKey(d2, "first_name", ui.christian_name) ELSE d2
        d4 == IF "family_name" \in ui.keys
              THEN SetKey(d3, "last_name", ui.family_name) ELSE d3
        d5 == IF "last_name" \in ui.keys
              THEN SetKey(d4, "last_name", ui.last_name) ELSE d4
        d6 == IF "email" \in ui.keys
              THEN SetKey(d5, "email", ui.email) ELSE d5
    IN  d6

RECURSIVE ClientPass(_, _, _, _, _)
\* the loop over resource_access.items() of get_roles; the test
\* name is 'account' holds when the key is the literal's own object; aliased
\* tells that roles is the very list stored under the account client, so
\* that extending roles by that client's list extends it by itself
ClientPass(clients, i, roles, interned, aliased) ==
    IF i > Len(clients) THEN roles
    ELSE IF clients[i].name = "account" /\ interned
         THEN ClientPass(clients, i + 1, roles, interned, aliased)
         ELSE IF clients[i].hasRoles
              THEN LET more == IF clients[i].name = "account" /\ aliased
                               THEN roles ELSE clients[i].roles
                   IN  ClientPass(clients, i + 1, roles \o more, interned,
                                  aliased)
              ELSE ClientPass(clients, i + 1, roles, interned, aliased)

\* lines 205-214 of get_roles: which list of the token roles is bound to
RolesSource(decoded_token) ==
    LET ra == decoded_token.resource_access
        acct == {i \in 1..Len(ra) : ra[i].name = "account" /\ ra[i].hasRoles}
    IN  IF decoded_token.realm_access.has
        THEN IF decoded_token.realm_access.hasRoles THEN "realm" ELSE "new"
        ELSE IF acct # {} THEN "account" ELSE "new"

AccountIndex(ra) == CHOOSE i \in 1..Len(ra) : ra[i].name = "account"

get_roles(decoded_token) ==
    LET ra == decoded_token.resource_access
        src == RolesSource(decoded_token)
        realm == IF src = "realm" THEN decoded_token.realm_access.roles
                 ELSE IF src = "account" THEN ra[AccountIndex(ra)].roles
                      ELSE <<>>
    IN  ClientPass(ra, 1, realm, decoded_token.interned, src = "account")

\* the token after get_roles(decoded_token): roles.extend has changed the
\* list that roles was bound to
TokenAfterRoles(decoded_token) ==
    LET src == RolesSource(decoded_token)
        ra == decoded_token.resource_access
    IN  IF src = "realm"
        THEN [decoded_token EXCEPT !.realm_access.roles =
                                       get_roles(decoded_token)]
        ELSE IF src = "account"
             THEN [decoded_token EXCEPT
                     !.resource_access[AccountIndex(ra)].roles =
                         get_roles(decoded_token)]
             ELSE decoded_token

\* faulty variant of get_token_audience: a single string is returned as it is, so
\* the caller iterates over its characters
get_token_audience_nowrap(token) ==
    IF token.aud.kind = "missing" THEN <<>>
    ELSE IF token.aud.kind = "str"
         THEN [i \in 1..Len(token.aud.s) |-> <<token.aud.s[i]>>]
         ELSE token.aud.l

get_token_audience(token) ==
    IF token.aud.kind = "missing" THEN <<>>
    ELSE IF token.aud.kind = "str" THEN <<token.aud.s>>
         ELSE token.aud.l

RECURSIVE AudienceLoop(_, _, _)
\* the for/else loop of token_audience_is_valid
AudienceLoop(audience, i, trusted_audiences) ==
    IF i > Len(audience) THEN FALSE
    ELSE IF audience[i] \in Range(trusted_audiences) THEN TRUE
         ELSE AudienceLoop(audience, i + 1, trusted_audiences)

\* faulty variant of token_audience_is_valid: settings without OIDC_AUTH accept
token_audience_is_valid_open(audience, conf) ==
    IF ~conf.hasOIDC_AUTH THEN TRUE
    ELSE AudienceLoop(audience, 1, conf.OIDC_AUDIENCES)

token_audience_is_valid(audience, conf) ==
    IF ~conf.hasOIDC_AUTH THEN FALSE
    ELSE AudienceLoop(audience, 1, conf.OIDC_AUDIENCES)

RECURSIVE ScopesLoop(_, _, _)
\* the loop over the required claim names of verify_claims
ScopesLoop(scopes, i, claims) ==
    IF i > Len(scopes) THEN TRUE
    ELSE IF /\ scopes[i] = "email"
            /\ "preferred_username" \in claims.keys
            /\ claims.preferred_username = KEYCLOAK_ADMIN_USER
         THEN ScopesLoop(scopes, i + 1, claims)
         ELSE IF scopes[i] \notin claims.keys THEN FALSE
              ELSE ScopesLoop(scopes, i + 1, claims)

\* faulty variant of verify_claims: the admin username waives every required claim
verify_claims_waive_all(claims, conf) ==
    \/ /\ "preferred_username" \in claims.keys
       /\ claims.preferred_username = KEYCLOAK_ADMIN_USER
    \/ ScopesLoop(conf.OIDC_CLAIMS_VERIFICATION, 1, claims)

verify_claims(claims, conf) ==
    ScopesLoop(conf.OIDC_CLAIMS_VERIFICATION, 1, claims)

\* a key of the key set: kid, and alg when the key declares one
JWK(kid, hasAlg, alg) == [kid |-> kid, hasAlg |-> hasAlg, alg |-> alg]

JWKs ==
    {JWK(k, FALSE, "") : k \in {"k1", "k2", "None"}} \cup
    {JWK(k, TRUE, a) : k \in {"k1", "k2", "None"}, a \in {"RS256", "HS256"}}

\* the key sets that the JWKS endpoint may return
KeySetsOfLen(n) == [1..n -> JWKs]

KeyLists == UNION {KeySetsOfLen(n) : n \in 0..MaxKeys}

\* the protected header of the token: alg, and kid when the token has one
Headers ==
    {[hasKid |-> FALSE, kid |-> "", alg |-> a] : a \in {"RS256", "HS256"}} \cup
    {[hasKid |-> TRUE, kid |-> k, alg |-> a] :
        k \in {"k1", "k2"}, a \in {"RS256", "HS256"}}

NoHeader == [hasKid |-> FALSE, kid |-> "", alg |-> ""]

\* smart_text(header.kid): the text of the value, 'None' for a missing kid
smart_text_kid(header) == IF header.hasKid THEN header.kid ELSE "None"

RECURSIVE JwkLoop(_, _, _, _)
\* lines 324-333: the loop over jwks['keys']; key is the index of the key
\* selected so far, 0 for None
JwkLoop(keys, i, header, key) ==
    IF i > Len(keys) THEN [err |-> "none", key |-> key]
    ELSE IF keys[i].kid # smart_text_kid(header) /\ Len(keys) > 1
         THEN JwkLoop(keys, i + 1, header, key)
         ELSE IF keys[i].hasAlg /\ keys[i].alg # header.alg
              THEN [err |-> "alg values do not match.", key |-> 0]
              ELSE JwkLoop(keys, i + 1, header, i)

\* faulty variant of retrieve_matching_jwk: the first key is taken whatever
\* its kid and alg
retrieve_matching_jwk_first(keys, header) ==
    IF Len(keys) = 0
    THEN [err |-> "Could not find a valid JWKS.", key |-> 0]
    ELSE [err |-> "none", key |-> 1]

\* lines 324-336 of retrieve_matching_jwk, both errors are SuspiciousOperation
retrieve_matching_jwk(keys, header) ==
    LET r == JwkLoop(keys, 1, header, 0)
    IN  IF r.err = "none" /\ r.key = 0
        THEN [err |-> "Could not find a valid JWKS.", key |-> 0]
        ELSE r

\* a request: whether the session holds an access token, and the words of
\* the Authorization header (none when the header is absent)
Request(session, header) == [session |-> session, header |-> header]

NoRequest == Request(FALSE, <<>>)

Requests ==
    {Request(TRUE, <<>>), Request(FALSE, <<>>), Request(FALSE, <<"Bearer">>),
     Request(FALSE, <<"Bearer", "jwt">>)}

\* lines 242-246 of get_access_token: which token string is unpacked, or
\* the IndexError of split()[1]
get_access_token(request) ==
    IF request.session THEN [err |-> "none", access |-> "jwt"]
    ELSE IF Len(request.header) < 2
         THEN [err |-> "IndexError", access |-> "none"]
         ELSE IF request.header[2] = ""
              THEN [err |-> "none", access |-> "public"]
              ELSE [err |-> "none", access |-> "jwt"]

(* ------------------------------- state --------------------------------- *)

VARIABLES
    users,        \* rows of the user table
    links,        \* rows of the Keycloak table: [id, UID, user]
    nextUserId,   \* primary-key sequence of the user table
    nextLinkId,   \* primary-key sequence of the Keycloak table
    uniqueUID,    \* the Keycloak table declares UID unique
    uniqueUser,   \* the Keycloak table declares user unique (one-to-one)
    settings,     \* django.conf.settings as read by the gates
    nLogins,      \* logins started so far
    proc,         \* per worker: position in the code and local variables
    snap,         \* sequential runs: the store when the login started
    madeFor,      \* history: <<id, sub>> for each row a login inserted
    pure          \* a call of get_roles or retrieve_matching_jwk on its own

vars ==
    <<users, links, nextUserId, nextLinkId, uniqueUID, uniqueUser, settings,
      nLogins, proc, snap, madeFor, pure>>

NoLink == [id |-> 0, UID |-> "", user |-> 0]

NoToken == Token(AudMissing, <<>>)

IdleProc ==
    [pc |-> "idle", entry |-> "none", userinfo |-> UserInfo({}, "", <<>>),
     token |-> NoToken, kc_user |-> NoLink, user |-> NoUser,
     first |-> FALSE, created |-> FALSE, ret |-> NoUser, err |-> "none",
     gate |-> "none", called |-> FALSE, hookLog |-> <<>>, rerun |-> FALSE,
     roles |-> <<>>, request |-> NoRequest, access |-> "none"]

NoSnap == [users |-> {}, links |-> {}, ret |-> NoUser]

Quiet(p) == proc[p].pc \in {"idle", "done", "failed"}

UserIds == {u.id : u \in users}

Set(p, r) == proc' = [proc EXCEPT ![p] = r]

Fail(p, e) == Set(p, [proc[p] EXCEPT !.pc = "failed", !.err = e])

StoreUnchanged == UNCHANGED <<users, links, nextUserId, nextLinkId>>

ConfigUnchanged == UNCHANGED <<uniqueUID, uniqueUser, settings, pure>>

\* no function has been called on its own
NoCall ==
    [fn |-> "none", decoded |-> NoToken, token |-> NoToken, roles |-> <<>>,
     first |-> <<>>, calls |-> 0, jwks |-> <<>>, header |-> NoHeader,
     key |-> 0, err |-> "none"]

(* ------------------------------- Init ---------------------------------- *)

InitStore ==
    /\ users \in {{}, {PreUser}}
    /\ links = {}
    /\ nextUserId = 2
    /\ nextLinkId = 1
    /\ nLogins = 0
    /\ proc = [p \in Procs |-> IdleProc]
    /\ snap = NoSnap
    /\ madeFor = {}

\* concurrent logins through get_user_with_id
Init ==
    /\ InitStore
    /\ pure = NoCall
    /\ uniqueUID \in BOOLEAN
    /\ uniqueUser \in BOOLEAN
    /\ settings = DefaultSettings

\* one login at a time, through either entry point
SeqInit ==
    /\ InitStore
    /\ pure = NoCall
    /\ uniqueUID \in BOOLEAN
    /\ uniqueUser = uniqueUID
    /\ settings \in SettingsChoices

(* --------------------------- entry points ------------------------------ *)

\* lines 133-152 of get_user_with_id: the reads of sub and
\* preferred_username and check_username, before the first query
EnterOutcome(ui) ==
    IF "sub" \notin ui.keys \/ "preferred_username" \notin ui.keys
    THEN [pc |-> "failed", err |-> "KeyError"]
    ELSE IF check_username(ui.preferred_username)
         THEN [pc |-> "failed", err |-> "AuthenticationFailed"]
         ELSE [pc |-> "get_link", err |-> "none"]

\* a request arrives at worker p; out is where the entry point leaves it:
\* at the first query of get_user_with_id, or returned, or raised
Begin(p, e, ui, tok, r, g, out) ==
    /\ Quiet(p)
    /\ nLogins < MaxLogins
    /\ nLogins' = nLogins + 1
    /\ Set(p, [IdleProc EXCEPT !.entry = e, !.userinfo = ui, !.token = tok,
                               !.rerun = r, !.gate = g,
                               !.called = out.called,
                               !.request = out.request,
                               !.access = out.access,
                               !.pc = out.pc, !.err = out.err])
    /\ StoreUnchanged
    /\ ConfigUnchanged

\* the entry point returns or raises before it calls get_user_with_id
Stopped(pc, err) ==
    [pc |-> pc, err |-> err, called |-> FALSE, request |-> NoRequest,
     access |-> "none"]

\* the call of get_user_with_id, up to its first query; the caller hands
\* over a decoded token
Called(ui) ==
    [pc |-> EnterOutcome(ui).pc, err |-> EnterOutcome(ui).err, called |-> TRUE,
     request |-> NoRequest, access |-> "jwt"]

\* a caller invokes get_user_with_id(access_token, userinfo) while other
\* workers may be inside it
Call_get_user_with_id(p) ==
    \E sub \in Subs, name \in Usernames, roles \in RaceRoleLists :
        LET ui == UserInfo({"sub", "preferred_username"}, sub, name)
        IN  /\ Begin(p, "get_user_with_id", ui,
                     Token(AudStr(AudBoss), roles), FALSE, "none", Called(ui))
            /\ UNCHANGED <<snap, madeFor>>

\* sequential runs are served by one worker, one login after the other
Alone(p) == p = "w1"

StoreSnap(r) == [users |-> users, links |-> links, ret |-> r]

\* get_user_with_id called with fresh arguments
Seq_get_user_with_id(p) ==
    /\ Alone(p)
    /\ \E sub \in Subs, name \in Usernames, roles \in RoleLists :
        LET ui == UserInfo({"sub", "preferred_username"}, sub, name)
        IN  Begin(p, "get_user_with_id", ui,
                  Token(AudStr(AudBoss), roles), FALSE, "none", Called(ui))
    /\ snap' = StoreSnap(NoUser)
    /\ UNCHANGED madeFor

\* get_user_with_id called again with the arguments of the call that has
\* just returned a user
Again_get_user_with_id(p) ==
    /\ Alone(p)
    /\ proc[p].pc = "done"
    /\ proc[p].called
    /\ Begin(p, "get_user_with_id", proc[p].userinfo, proc[p].token, TRUE,
             "none", Called(proc[p].userinfo))
    /\ snap' = StoreSnap(proc[p].ret)
    /\ UNCHANGED madeFor

\* lines 112-116: get_user_by_id; the payload of the token that
\* get_access_token unpacks is an input, a token string 'public' has no
\* claims
Call_get_user_by_id(p) ==
    /\ Alone(p)
    /\ \E request \in Requests, aud \in AudValues, name \in {NameA, LongName},
          roles \in {<<"admin">>} :
        LET ui == UserInfo({"sub", "preferred_username"}, "kc-1", name)
            got == get_access_token(request)
            access_token == IF got.access = "jwt" THEN Token(aud, roles)
                            ELSE NoToken
            audience == get_token_audience(access_token)
        IN  IF got.err # "none"
            THEN Begin(p, "get_user_by_id", ui, NoToken, FALSE, "none",
                       [Stopped("failed", got.err) EXCEPT
                          !.request = request])
            ELSE IF ~token_audience_is_valid(audience, settings)
                 THEN Begin(p, "get_user_by_id", ui, access_token, FALSE,
                            "reject",
                            [Stopped("done", "none") EXCEPT
                               !.request = request, !.access = got.access])
                 ELSE Begin(p, "get_user_by_id", ui, access_token, FALSE,
                            "pass",
                            [Called(ui) EXCEPT
                               !.request = request, !.access = got.access])
    /\ snap' = StoreSnap(NoUser)
    /\ UNCHANGED madeFor

\* lines 377-385: get_or_create_user; user_info is what get_userinfo returned
Call_get_or_create_user(p) ==
    /\ Alone(p)
    /\ \E keys \in KeySets, name \in {NameA, KEYCLOAK_ADMIN_USER} :
        LET user_info == UserInfo(keys, "kc-2", name)
            claims_verified == verify_claims(user_info, settings)
        IN  IF ~claims_verified
            THEN Begin(p, "get_or_create_user", user_info, NoToken, FALSE,
                       "reject", Stopped("failed", "SuspiciousOperation"))
            ELSE Begin(p, "get_or_create_user", user_info, NoToken, FALSE,
                       "pass", Called(user_info))
    /\ snap' = StoreSnap(NoUser)
    /\ UNCHANGED madeFor

(* ------------------------- reconciliation steps ------------------------ *)

\* faulty variant of GetLink: the lookup by UID never finds the link
GetLink_miss(p) ==
    /\ proc[p].pc = "get_link"
    /\ Set(p, [proc[p] EXCEPT !.pc = "get_by_natural_key", !.first = TRUE])
    /\ StoreUnchanged
    /\ ConfigUnchanged
    /\ UNCHANGED <<nLogins, snap, madeFor>>

\* faulty variant of GetLink: the link is taken only when its user carries
\* the username of the login
GetLink_byname(p) ==
    /\ proc[p].pc = "get_link"
    /\ LET ls == {l \in links :
                    /\ l.UID = proc[p].userinfo.sub
                    /\ \E u \in users :
                          /\ u.id = l.user
                          /\ u.username = proc[p].userinfo.preferred_username}
       IN  IF ls = {}
           THEN Set(p, [proc[p] EXCEPT !.pc = "get_by_natural_key",
                                       !.first = TRUE])
           ELSE IF Cardinality(ls) = 1
                THEN Set(p, [proc[p] EXCEPT !.pc = "load_user",
                                            !.kc_user = CHOOSE l \in ls : TRUE])
                ELSE Fail(p, "MultipleObjectsReturned")
    /\ StoreUnchanged
    /\ ConfigUnchanged
    /\ UNCHANGED <<nLogins, snap, madeFor>>

\* line 160: KeycloakModel.objects.get(UID = uid)
GetLink(p) ==
    /\ proc[p].pc = "get_link"
    /\ LET ls == {l \in links : l.UID = proc[p].userinfo.sub}
       IN  IF ls = {}
           THEN Set(p, [proc[p] EXCEPT !.pc = "get_by_natural_key",
                                       !.first = TRUE])
           ELSE IF Cardinality(ls) = 1
                THEN Set(p, [proc[p] EXCEPT !.pc = "load_user",
                                            !.kc_user = CHOOSE l \in ls : TRUE])
                ELSE Fail(p, "MultipleObjectsReturned")
    /\ StoreUnchanged
    /\ ConfigUnchanged
    /\ UNCHANGED <<nLogins, snap, madeFor>>

\* line 161: kc_user.user, the related row is fetched on access
LoadUser(p) ==
    /\ proc[p].pc = "load_user"
    /\ LET us == {u \in users : u.id = proc[p].kc_user.user}
       IN  IF us = {}
           THEN Fail(p, "DoesNotExist")
           ELSE Set(p, [proc[p] EXCEPT !.pc = "hooks",
                                       !.user = CHOOSE u \in us : TRUE])
    /\ StoreUnchanged
    /\ ConfigUnchanged
    /\ UNCHANGED <<nLogins, snap, madeFor>>

\* faulty variant of GetByNaturalKey: the user with the username is never found,
\* so it is not deleted
GetByNaturalKey_miss(p) ==
    /\ proc[p].pc = "get_by_natural_key"
    /\ Set(p, [proc[p] EXCEPT !.pc = "update_or_create"])
    /\ StoreUnchanged
    /\ ConfigUnchanged
    /\ UNCHANGED <<nLogins, snap, madeFor>>

\* lines 164, 174-175: UserModel.objects.get_by_natural_key(username)
GetByNaturalKey(p) ==
    /\ proc[p].pc = "get_by_natural_key"
    /\ LET us == {u \in users : u.username = proc[p].userinfo.preferred_username}
       IN  IF us = {}
           THEN Set(p, [proc[p] EXCEPT !.pc = "update_or_create"])
           ELSE Set(p, [proc[p] EXCEPT !.pc = "delete",
                                       !.user = CHOOSE u \in us : TRUE])
    /\ StoreUnchanged
    /\ ConfigUnchanged
    /\ UNCHANGED <<nLogins, snap, madeFor>>

\* the Keycloak rows left when a user row is deleted: the links of the row
\* go with it (the link's user reference cascades)
Cascade(usr) == {l \in links : l.user # usr}

\* line 173: user.delete()
DeleteUser(p) ==
    /\ proc[p].pc = "delete"
    /\ users' = {u \in users : u.id # proc[p].user.id}
    /\ links' = Cascade(proc[p].user.id)
    /\ Set(p, [proc[p] EXCEPT !.pc = "update_or_create"])
    /\ ConfigUnchanged
    /\ UNCHANGED <<nextUserId, nextLinkId, nLogins, snap, madeFor>>

\* update_or_create writes the defaults that the dictionary carries
ApplyDefaults(u, d) ==
    [u EXCEPT !.first_name = IF "first_name" \in d.keys THEN d.first_name ELSE @,
              !.last_name = IF "last_name" \in d.keys THEN d.last_name ELSE @,
              !.email = IF "email" \in d.keys THEN d.email ELSE @,
              !.last_login = d.last_login]

\* lines 177-178: UserModel.objects.update_or_create(username, defaults)
UpdateOrCreate(p) ==
    /\ proc[p].pc = "update_or_create"
    /\ LET name == proc[p].userinfo.preferred_username
           d == openid_data(proc[p].userinfo)
           us == {u \in users : u.username = name}
       IN  IF us = {}
           THEN LET new == ApplyDefaults([NoUser EXCEPT !.id = nextUserId,
                                                        !.username = name], d)
                IN  /\ users' = users \cup {new}
                    /\ nextUserId' = nextUserId + 1
                    /\ madeFor' = madeFor \cup {<<new.id, proc[p].userinfo.sub>>}
                    /\ Set(p, [proc[p] EXCEPT !.pc = "create_link",
                                              !.user = new, !.created = TRUE])
           ELSE LET old == CHOOSE u \in us : TRUE
                    upd == ApplyDefaults(old, d)
                IN  /\ users' = (users \ {old}) \cup {upd}
                    /\ nextUserId' = nextUserId
                    /\ madeFor' = madeFor
                    /\ Set(p, [proc[p] EXCEPT !.pc = "create_link",
                                              !.user = upd, !.created = FALSE])
    /\ ConfigUnchanged
    /\ UNCHANGED <<links, nextLinkId, nLogins, snap>>

\* the uniqueness constraints that the Keycloak table declares reject the row
LinkRejected(uid, usr) ==
    \/ uniqueUser /\ \E l \in links : l.user = usr
    \/ uniqueUID /\ \E l \in links : l.UID = uid

\* line 179: KeycloakModel.objects.create(user = user, UID = uid)
CreateLink(p) ==
    /\ proc[p].pc = "create_link"
    /\ LET uid == proc[p].userinfo.sub
           usr == proc[p].user.id
       IN  IF usr \notin UserIds
           THEN Fail(p, "ForeignKeyViolation") /\ UNCHANGED <<links, nextLinkId>>
           ELSE IF LinkRejected(uid, usr)
                THEN Fail(p, "UniqueViolation") /\ UNCHANGED <<links, nextLinkId>>
                ELSE LET new == [id |-> nextLinkId, UID |-> uid, user |-> usr]
                     IN  /\ links' = links \cup {new}
                         /\ nextLinkId' = nextLinkId + 1
                         /\ Set(p, [proc[p] EXCEPT !.pc = "hooks",
                                                   !.kc_user = new])
    /\ ConfigUnchanged
    /\ UNCHANGED <<users, nextUserId, nLogins, snap, madeFor>>

\* faulty variant of SetFlags: a flag that the user holds is kept
SetFlags_sticky(u, roleList) ==
    LET roles == Range(roleList)
    IN  [u EXCEPT !.is_staff = @ \/ "admin" \in roles \/ "superuser" \in roles,
                  !.is_superuser = @ \/ "superuser" \in roles]

\* lines 181-183: the flags are recomputed on the object in memory
SetFlags(u, roleList) ==
    LET roles == Range(roleList)
    IN  [u EXCEPT !.is_staff = "admin" \in roles \/ "superuser" \in roles,
                  !.is_superuser = "superuser" \in roles]

\* an event of a login: what happened, the user object as it was then, and
\* the roles or the userinfo that a hook was handed
Event(ev, u, roles, ui) ==
    [ev |-> ev, user |-> u.id, is_staff |-> u.is_staff,
     is_superuser |-> u.is_superuser, roles |-> roles, userinfo |-> ui]

\* lines 181-186 as events: the flags assigned, LOAD_USER_ROLES_FUNCTION
\* called, UPDATE_USER_DATA_FUNCTION called
HookEvents(u, roles, ui) ==
    <<Event("flags", u, <<>>, IdleProc.userinfo),
      Event("load_user_roles", u, roles, IdleProc.userinfo),
      Event("update_user_data", u, <<>>, ui)>>

\* faulty variant of Hooks: the profile hook is called before the role hook
Hooks_swapped(p) ==
    /\ proc[p].pc = "hooks"
    /\ LET roles == get_roles(proc[p].token)
           me == [proc[p] EXCEPT
                    !.roles = roles,
                    !.token = TokenAfterRoles(proc[p].token),
                    !.user = SetFlags(@, roles)]
           evs == HookEvents(me.user, roles, me.userinfo)
       IN  \/ Set(p, [me EXCEPT !.pc = "save",
                                !.hookLog = <<evs[1], evs[3], evs[2]>>])
           \/ Set(p, [me EXCEPT !.pc = "failed", !.err = "HookError",
                                !.hookLog = <<evs[1], evs[3]>>])
           \/ Set(p, [me EXCEPT !.pc = "failed", !.err = "HookError",
                                !.hookLog = <<evs[1], evs[3], evs[2]>>])
    /\ StoreUnchanged
    /\ ConfigUnchanged
    /\ UNCHANGED <<nLogins, snap, madeFor>>

\* faulty variant of Hooks: the flags are written to the row as soon as they
\* are assigned
Hooks_eager_save(p) ==
    /\ proc[p].pc = "hooks"
    /\ LET roles == get_roles(proc[p].token)
           me == [proc[p] EXCEPT
                    !.roles = roles,
                    !.token = TokenAfterRoles(proc[p].token),
                    !.user = SetFlags(@, roles)]
           evs == HookEvents(me.user, roles, me.userinfo)
       IN  /\ users' = {IF u.id = me.user.id THEN me.user ELSE u : u \in users}
           /\ \/ Set(p, [me EXCEPT !.pc = "save", !.hookLog = evs])
              \/ Set(p, [me EXCEPT !.pc = "failed", !.err = "HookError",
                                   !.hookLog = SubSeq(evs, 1, 2)])
              \/ Set(p, [me EXCEPT !.pc = "failed", !.err = "HookError",
                                   !.hookLog = evs])
    /\ ConfigUnchanged
    /\ UNCHANGED <<links, nextUserId, nextLinkId, nLogins, snap, madeFor>>

\* lines 181-186: get_roles, the flags, then LOAD_USER_ROLES_FUNCTION(user,
\* roles) and UPDATE_USER_DATA_FUNCTION(user, userinfo); all on the object in
\* memory; a configured hook may raise, the default hooks return
Hooks(p) ==
    /\ proc[p].pc = "hooks"
    /\ LET roles == get_roles(proc[p].token)
           me == [proc[p] EXCEPT
                    !.roles = roles,
                    !.token = TokenAfterRoles(proc[p].token),
                    !.user = SetFlags(@, roles)]
           evs == HookEvents(me.user, roles, me.userinfo)
       IN  \/ Set(p, [me EXCEPT !.pc = "save", !.hookLog = evs])
           \/ Set(p, [me EXCEPT !.pc = "failed", !.err = "HookError",
                                !.hookLog = SubSeq(evs, 1, 2)])
           \/ Set(p, [me EXCEPT !.pc = "failed", !.err = "HookError",
                                !.hookLog = evs])
    /\ StoreUnchanged
    /\ ConfigUnchanged
    /\ UNCHANGED <<nLogins, snap, madeFor>>

\* the event of user.save()
Saved(u) == Event("save", u, <<>>, IdleProc.userinfo)

\* lines 188-189: user.save() updates the row with the object's primary key
\* and inserts it when no row has that key; return user
Save(p) ==
    /\ proc[p].pc = "save"
    /\ LET me == proc[p].user
           row == {u \in users : u.id = me.id}
       IN  IF row # {}
           THEN /\ users' = (users \ row) \cup {me}
                /\ Set(p, [proc[p] EXCEPT !.pc = "done", !.ret = me,
                                          !.hookLog = Append(@, Saved(me))])
           ELSE IF \E u \in users : u.username = me.username
                THEN Fail(p, "UniqueViolation") /\ users' = users
                ELSE /\ users' = users \cup {me}
                     /\ Set(p, [proc[p] EXCEPT !.pc = "done", !.ret = me,
                                          !.hookLog = Append(@, Saved(me))])
    /\ ConfigUnchanged
    /\ UNCHANGED <<links, nextUserId, nextLinkId, nLogins, snap, madeFor>>

Reconcile(p) ==
    \/ GetLink(p)
    \/ LoadUser(p)
    \/ GetByNaturalKey(p)
    \/ DeleteUser(p)
    \/ UpdateOrCreate(p)
    \/ CreateLink(p)
    \/ Hooks(p)
    \/ Save(p)

Next == \E p \in Procs : Call_get_user_with_id(p) \/ Reconcile(p)

Spec == Init /\ [][Next]_vars

SeqNext ==
    \E p \in Procs :
        \/ Seq_get_user_with_id(p)
        \/ Again_get_user_with_id(p)
        \/ Call_get_user_by_id(p)
        \/ Call_get_or_create_user(p)
        \/ Reconcile(p)

SeqSpec == SeqInit /\ [][SeqNext]_vars

(* ----------------------- functions called on their own ------------------ *)

\* a decoded token is handed to get_roles, or a key set and a token header
\* to retrieve_matching_jwk
PureInit ==
    /\ InitStore
    /\ users = {}
    /\ uniqueUID = FALSE
    /\ uniqueUser = FALSE
    /\ settings = DefaultSettings
    /\ \/ \E t \in RoleTokens :
            pure = [NoCall EXCEPT !.fn = "get_roles", !.decoded = t,
                                  !.token = t]
       \/ \E k \in KeyLists, h \in Headers :
            pure = [NoCall EXCEPT !.fn = "retrieve_matching_jwk",
                                  !.jwks = k, !.header = h]

\* lines 192-226: get_roles(decoded_token) on the token object that earlier
\* calls have worked on
Call_get_roles ==
    /\ pure.fn = "get_roles"
    /\ pure.calls < MaxCalls
    /\ pure' = [pure EXCEPT
                  !.roles = get_roles(pure.token),
                  !.token = TokenAfterRoles(pure.token),
                  !.first = IF pure.calls = 0 THEN get_roles(pure.token) ELSE @,
                  !.calls = @ + 1]
    /\ StoreUnchanged
    /\ UNCHANGED <<uniqueUID, uniqueUser, settings, nLogins, proc, snap,
                   madeFor>>

\* lines 296-336: retrieve_matching_jwk on the fetched key set
Call_retrieve_matching_jwk ==
    /\ pure.fn = "retrieve_matching_jwk"
    /\ pure.calls = 0
    /\ LET r == retrieve_matching_jwk(pure.jwks, pure.header)
       IN  pure' = [pure EXCEPT !.key = r.key, !.err = r.err, !.calls = 1]
    /\ StoreUnchanged
    /\ UNCHANGED <<uniqueUID, uniqueUser, settings, nLogins, proc, snap,
                   madeFor>>

PureNext == Call_get_roles \/ Call_retrieve_matching_jwk

PureSpec == PureInit /\ [][PureNext]_vars

(* ------------------------------ claims --------------------------------- *)

\* C1: in every reachable state there is at most one link per subject id,
\* also when the Keycloak table declares no uniqueness of UID.
C1_OneLinkPerSubject ==
    \A l1 \in links, l2 \in links : l1.UID = l2.UID => l1 = l2

\* C2: in every reachable state every user has at most one link pointing to
\* it, also when the Keycloak table declares no uniqueness of user.
C2_OneLinkPerUser ==
    \A l1 \in links, l2 \in links : l1.user = l2.user => l1 = l2

\* C3: a first login (no link found for its subject) that completes returns
\* a user record that was inserted by a login for the same subject, never a
\* record that existed before or that a login for another subject inserted.
C3_FirstLoginOwnsRecord ==
    \A p \in Procs :
        (proc[p].pc = "done" /\ proc[p].first) =>
            <<proc[p].ret.id, proc[p].userinfo.sub>> \in madeFor

\* C4: a uniqueness violation raised by the store while logins race is never
\* propagated to the caller of get_user_with_id.
C4_RaceNotPropagated ==
    \A p \in Procs :
        ~(proc[p].pc = "failed" /\ proc[p].err = "UniqueViolation")

\* the login of p started with a user named as the login's username and no
\* link for the login's subject
Collision(p) ==
    /\ proc[p].called
    /\ \E u \in snap.users : u.username = proc[p].userinfo.preferred_username
    /\ \A l \in snap.links : l.UID # proc[p].userinfo.sub

\* C5: a login that starts with a user named u and no link for s ends with
\* the old user and its links deleted, exactly one user named u, which is a
\* new record, and exactly one link for s, which points to the new record.
C5_CollisionReplacesUser ==
    \A p \in Procs :
        (Collision(p) /\ proc[p].pc = "done") =>
            LET name == proc[p].userinfo.preferred_username
                old == {u.id : u \in {v \in snap.users : v.username = name}}
                new == {u \in users : u.username = name}
                mine == {l \in links : l.UID = proc[p].userinfo.sub}
            IN  /\ old \cap UserIds = {}
                /\ \A l \in links : l.user \notin old
                /\ Cardinality(new) = 1
                /\ \A u \in new : u.id \notin {v.id : v \in snap.users}
                /\ Cardinality(mine) = 1
                /\ \A l \in mine : \A u \in new : l.user = u.id

C5_Witness ==
    \E p \in Procs :
        /\ Collision(p)
        /\ proc[p].pc = "done"
        /\ \E l \in snap.links : \E u \in snap.users :
              l.user = u.id /\ u.username = proc[p].userinfo.preferred_username

\* C6: get_user_with_id run again with the arguments of the run that has
\* just returned creates and deletes nothing, leaves the users and the links
\* as the first run left them, and returns the same user record.
C6_SecondRunChangesNothing ==
    \A p \in Procs :
        proc[p].rerun =>
            /\ users = snap.users
            /\ links = snap.links
            /\ proc[p].err \in {"none", "HookError"}
            /\ proc[p].pc = "done" => proc[p].ret = snap.ret

C6_Witness ==
    \E p \in Procs :
        /\ proc[p].rerun
        /\ proc[p].pc = "done"
        /\ proc[p].ret.is_superuser
        /\ proc[p].ret.id > 1

\* the login of p called get_user_with_id with a username longer than the
\* user model allows
TooLong(p) ==
    /\ proc[p].called
    /\ {"sub", "preferred_username"} \subseteq proc[p].userinfo.keys
    /\ Len(proc[p].userinfo.preferred_username) > MaxUsernameLen

\* C7: a login whose username is too long fails with the username error and
\* leaves the users and the links as they were.
C7_TooLongFailsUntouched ==
    \A p \in Procs :
        TooLong(p) =>
            /\ proc[p].pc = "failed"
            /\ proc[p].err = "AuthenticationFailed"
            /\ users = snap.users
            /\ links = snap.links

C7_Witness ==
    \E p \in Procs :
        /\ TooLong(p)
        /\ proc[p].pc = "failed"
        /\ \E l \in links : l.UID = proc[p].userinfo.sub
        /\ \E u \in users : u.username = KEYCLOAK_ADMIN_USER

\* the aud claim as a set of audiences
AudSet(aud) ==
    IF aud.kind = "missing" THEN {}
    ELSE IF aud.kind = "str" THEN {aud.s} ELSE Range(aud.l)

\* the token names an audience that the settings trust
Trusted(tok) ==
    /\ settings.hasOIDC_AUTH
    /\ AudSet(tok.aud) \cap Range(settings.OIDC_AUDIENCES) # {}

\* C8: when the audience of the token that get_access_token returned is not
\* trusted, get_user_by_id returns None without raising, get_user_with_id is
\* not called, no hook runs and the users and the links stay as they were.
C8_UntrustedAudienceReturnsNone ==
    \A p \in Procs :
        (/\ proc[p].entry = "get_user_by_id"
         /\ proc[p].access # "none"
         /\ ~Trusted(proc[p].token)) =>
            /\ proc[p].pc = "done"
            /\ proc[p].ret = NoUser
            /\ proc[p].err = "none"
            /\ ~proc[p].called
            /\ proc[p].hookLog = <<>>
            /\ users = snap.users
            /\ links = snap.links

C8_Witness ==
    \E p \in Procs :
        /\ proc[p].entry = "get_user_by_id"
        /\ ~settings.hasOIDC_AUTH
        /\ proc[p].token.aud = AudStr(AudBoss)
        /\ proc[p].pc = "done"
        /\ users # {}

\* C9: the audience check passes exactly when the settings carry OIDC_AUTH
\* and the aud claim, as a list, shares an element with OIDC_AUDIENCES.
C9_AudienceCheckIsIntersection ==
    \A p \in Procs :
        proc[p].entry = "get_user_by_id" =>
            (proc[p].gate = "pass" <=> Trusted(proc[p].token))

C9_Witness ==
    \E p \in Procs :
        /\ proc[p].entry = "get_user_by_id"
        /\ proc[p].gate = "pass"
        /\ proc[p].token.aud.kind = "str"

\* the required claim field is satisfied by the claims
Satisfied(field, claims) ==
    \/ field \in claims.keys
    \/ /\ field = "email"
       /\ "preferred_username" \in claims.keys
       /\ claims.preferred_username = KEYCLOAK_ADMIN_USER

\* C10 as stated: claims that miss sub or preferred_username never pass
\* verify_claims.
C10_MissingSubAlwaysRejected ==
    \A p \in Procs :
        (/\ proc[p].entry = "get_or_create_user"
         /\ ~({"sub", "preferred_username"} \subseteq proc[p].userinfo.keys))
            => proc[p].gate = "reject"

\* C10 amended: verify_claims passes exactly when every configured required
\* claim is a key of the claims or is the email claim of the admin user; so
\* claims that miss sub or preferred_username are rejected whenever the
\* configured list names the missing claim; a rejection raises
\* SuspiciousOperation before get_user_with_id is called, store untouched.
C10_RequiredClaimsGate ==
    \A p \in Procs :
        proc[p].entry = "get_or_create_user" =>
            LET claims == proc[p].userinfo
                required == Range(settings.OIDC_CLAIMS_VERIFICATION)
            IN  /\ proc[p].gate = "pass" <=>
                      \A field \in required : Satisfied(field, claims)
                /\ \A k \in {"sub", "preferred_username"} :
                      (k \in required /\ k \notin claims.keys) =>
                          proc[p].gate = "reject"
                /\ proc[p].gate = "reject" =>
                      /\ proc[p].pc = "failed"
                      /\ proc[p].err = "SuspiciousOperation"
                      /\ ~proc[p].called
                      /\ users = snap.users
                      /\ links = snap.links

C10_Witness ==
    \E p \in Procs :
        /\ proc[p].entry = "get_or_create_user"
        /\ proc[p].gate = "reject"
        /\ "sub" \notin proc[p].userinfo.keys
        /\ proc[p].userinfo.preferred_username = KEYCLOAK_ADMIN_USER
        /\ "preferred_username" \in proc[p].userinfo.keys
        /\ users # {}

\* the roles that a decoded token names, under realm_access and the clients
RoleSet(tok) ==
    Range(tok.realm_access.roles) \cup
    UNION {Range(c.roles) : c \in Range(tok.resource_access)}

\* C11: after a login through get_user_with_id that completes, the stored
\* user is the returned one and has is_staff exactly when the login's roles
\* hold admin or superuser, and is_superuser exactly when they hold
\* superuser, whatever the flags were before.
C11_FlagsDerivedFromRoles ==
    \A p \in Procs :
        (proc[p].called /\ proc[p].pc = "done") =>
            LET roles == RoleSet(proc[p].token)
            IN  /\ proc[p].ret \in users
                /\ \A u \in users :
                      u.id = proc[p].ret.id =>
                          /\ u.is_staff = ("admin" \in roles \/
                                           "superuser" \in roles)
                          /\ u.is_superuser = ("superuser" \in roles)

C11_Witness ==
    \E p \in Procs :
        /\ proc[p].called
        /\ proc[p].pc = "done"
        /\ ~proc[p].first
        /\ ~proc[p].rerun
        /\ \E u \in snap.users :
              /\ u.id = proc[p].ret.id
              /\ u.is_superuser
              /\ u.is_staff
        /\ ~proc[p].ret.is_superuser
        /\ ~proc[p].ret.is_staff

RECURSIVE OtherClients(_, _)
\* the roles lists of the clients other than account, in order
OtherClients(clients, i) ==
    IF i > Len(clients) THEN <<>>
    ELSE IF clients[i].name # "account" /\ clients[i].hasRoles
         THEN clients[i].roles \o OtherClients(clients, i + 1)
         ELSE OtherClients(clients, i + 1)

\* the realm roles: realm_access.roles when realm_access is present, else
\* the roles of the account client, else none
RealmRoles(tok) ==
    IF tok.realm_access.has
    THEN IF tok.realm_access.hasRoles THEN tok.realm_access.roles ELSE <<>>
    ELSE LET acct == {i \in 1..Len(tok.resource_access) :
                         /\ tok.resource_access[i].name = "account"
                         /\ tok.resource_access[i].hasRoles}
         IN  IF acct = {} THEN <<>>
             ELSE tok.resource_access[CHOOSE i \in acct : TRUE].roles

\* C12 as stated: get_roles returns the realm roles followed by the roles
\* of every client other than account; the account client adds nothing in
\* the client pass.
C12_AccountAddsNothing ==
    (pure.fn = "get_roles" /\ pure.calls >= 1) =>
        pure.first = RealmRoles(pure.decoded) \o
                     OtherClients(pure.decoded.resource_access, 1)

\* C13 as stated: get_roles leaves the claims map as it was, and every call
\* on the same decoded token returns the same list.
C13_GetRolesIsPure ==
    (pure.fn = "get_roles" /\ pure.calls >= 1) =>
        /\ pure.token = pure.decoded
        /\ pure.roles = pure.first

\* the key declares no alg, or the alg of the token header
AlgAgrees(jwk, header) == ~jwk.hasAlg \/ jwk.alg = header.alg

\* C14 as stated: a one-key set yields its key whatever the header's kid
\* when the alg check passes; from a set of several keys the returned key
\* has the kid of the token header; a call that selects no key fails.
C14_KeySelection ==
    (pure.fn = "retrieve_matching_jwk" /\ pure.calls = 1) =>
        LET keys == pure.jwks
            header == pure.header
        IN  /\ (Len(keys) = 1 /\ AlgAgrees(keys[1], header)) =>
                  (pure.key = 1 /\ pure.err = "none")
            /\ (Len(keys) > 1 /\ pure.key # 0) =>
                  (header.hasKid /\ keys[pure.key].kid = header.kid)
            /\ (pure.key = 0) <=> (pure.err # "none")

\* C15 as stated: a request with no token in the session and none in the
\* Authorization header does not fail in get_access_token; the token is
\* taken as 'public' and the audience check rejects it.
C15_AbsentTokenIsPublic ==
    \A p \in Procs :
        (/\ proc[p].entry = "get_user_by_id"
         /\ ~proc[p].request.session
         /\ Len(proc[p].request.header) < 2) =>
            /\ proc[p].err # "IndexError"
            /\ proc[p].access = "public"
            /\ proc[p].gate = "reject"

\* C16: retrieve_matching_jwk returns no key whose alg differs from the alg
\* of the token header; when the sole key, or a key with the header's kid,
\* declares a different alg, the call fails and returns no key.
C16_AlgNeverCoerced ==
    (pure.fn = "retrieve_matching_jwk" /\ pure.calls = 1) =>
        LET keys == pure.jwks
            header == pure.header
        IN  /\ pure.key # 0 => AlgAgrees(keys[pure.key], header)
            /\ \A i \in 1..Len(keys) :
                  (/\ \/ Len(keys) = 1
                      \/ header.hasKid /\ keys[i].kid = header.kid
                   /\ ~AlgAgrees(keys[i], header)) =>
                      /\ pure.key = 0
                      /\ pure.err = "alg values do not match."

C16_Witness ==
    /\ pure.fn = "retrieve_matching_jwk"
    /\ pure.calls = 1
    /\ Len(pure.jwks) = 2
    /\ pure.header.hasKid
    /\ pure.jwks[1].kid = pure.header.kid
    /\ pure.jwks[2].kid = pure.header.kid
    /\ ~AlgAgrees(pure.jwks[1], pure.header)
    /\ pure.jwks[2].hasAlg
    /\ AlgAgrees(pure.jwks[2], pure.header)
    /\ pure.err = "alg values do not match."

\* the links that the store held for the login's subject when it started
LinkedBefore(p) ==
    IF proc[p].called /\ "sub" \in proc[p].userinfo.keys
    THEN {l \in snap.links : l.UID = proc[p].userinfo.sub}
    ELSE {}

\* C17: a login whose subject has a link creates no user, deletes no user
\* and creates no link; the only row it may write is the linked user.
C17_ExistingPathUpdateOnly ==
    \A p \in Procs :
        LinkedBefore(p) # {} =>
            /\ links = snap.links
            /\ UserIds = {u.id : u \in snap.users}
            /\ \A u \in snap.users :
                  (\A l \in LinkedBefore(p) : l.user # u.id) => u \in users

C17_Witness ==
    \E p \in Procs :
        /\ proc[p].pc = "done"
        /\ \E l \in LinkedBefore(p) : l.user = proc[p].ret.id
        /\ proc[p].ret.username # proc[p].userinfo.preferred_username
        /\ \E u \in users :
              /\ u.id # proc[p].ret.id
              /\ u.username = proc[p].userinfo.preferred_username
        /\ users # snap.users

\* the events that a login goes through from step 5 on
EventOrder == <<"flags", "load_user_roles", "update_user_data", "save">>

\* the login of p has got to the hooks
ReachedHooks(p) ==
    \/ proc[p].pc \in {"save", "done"} /\ proc[p].called
    \/ proc[p].pc = "failed" /\ proc[p].err = "HookError"

\* C18: the events of a login are, in this order, the flags recomputed, the
\* role hook called with the user and the roles, the profile hook called
\* with the user and the userinfo, the user saved; a failure of a hook
\* goes to the caller and nothing follows it: after a failure of the role
\* hook there is no call of the profile hook and no save.
C18_HookOrder ==
    \A p \in Procs :
        LET log == proc[p].hookLog
        IN  /\ Len(log) <= Len(EventOrder)
            /\ \A i \in 1..Len(log) :
                  /\ log[i].ev = EventOrder[i]
                  /\ log[i].user = proc[p].user.id
            /\ ReachedHooks(p) <=> Len(log) >= 2
            /\ Len(log) >= 2 =>
                  /\ log[2].roles = proc[p].roles
                  /\ log[2].is_staff = log[1].is_staff
                  /\ log[2].is_superuser = log[1].is_superuser
                  /\ log[1].is_superuser = ("superuser" \in Range(proc[p].roles))
            /\ Len(log) >= 3 => log[3].userinfo = proc[p].userinfo
            /\ Len(log) = 4 <=> (proc[p].pc = "done" /\ proc[p].called)
            /\ (proc[p].pc = "failed" /\ proc[p].err = "HookError") =>
                  /\ Len(log) \in {2, 3}
                  /\ proc[p].ret = NoUser

C18_Witness ==
    \E p \in Procs :
        /\ proc[p].pc = "failed"
        /\ proc[p].err = "HookError"
        /\ Len(proc[p].hookLog) = 2
        /\ proc[p].hookLog[2].ev = "load_user_roles"
        /\ proc[p].hookLog[2].roles = <<"superuser">>
        /\ proc[p].first

RECURSIVE FirstPresent(_, _, _)
\* the value under the first of the names that the userinfo carries
FirstPresent(ui, names, i) ==
    IF i > Len(names) THEN ""
    ELSE IF names[i] \in ui.keys THEN ui[names[i]]
         ELSE FirstPresent(ui, names, i + 1)

RECURSIVE LastPresent(_, _, _)
\* the value under the last of the names that the userinfo carries
LastPresent(ui, names, i) ==
    IF i = 0 THEN ""
    ELSE IF names[i] \in ui.keys THEN ui[names[i]]
         ELSE LastPresent(ui, names, i - 1)

FirstNameAliases == <<"first_name", "given_name", "christian_name">>

LastNameAliases == <<"family_name", "last_name">>

\* the login of p has completed a first login, which inserted the user
FirstLoginDone(p) ==
    proc[p].pc = "done" /\ proc[p].first /\ proc[p].created

\* C19 as stated: the user inserted on first login has the first name of the
\* first present of first_name, given_name, christian_name and the last name
\* of the first present of family_name, last_name.
C19_FirstMatchWins ==
    \A p \in Procs :
        FirstLoginDone(p) =>
            /\ proc[p].ret.first_name =
                  FirstPresent(proc[p].userinfo, FirstNameAliases, 1)
            /\ proc[p].ret.last_name =
                  FirstPresent(proc[p].userinfo, LastNameAliases, 1)

\* C19 amended: the user inserted on first login has the first name of the
\* last present of first_name, given_name, christian_name and the last name
\* of the last present of family_name, last_name; with no alias present the
\* field is empty.
C19_LastMatchWins ==
    \A p \in Procs :
        FirstLoginDone(p) =>
            /\ proc[p].ret \in users
            /\ proc[p].ret.first_name =
                  LastPresent(proc[p].userinfo, FirstNameAliases, 3)
            /\ proc[p].ret.last_name =
                  LastPresent(proc[p].userinfo, LastNameAliases, 2)

C19_Witness ==
    \E p \in Procs :
        /\ FirstLoginDone(p)
        /\ {"first_name", "christian_name", "family_name", "last_name"}
              \subseteq proc[p].userinfo.keys
        /\ proc[p].ret.first_name = "cn"
        /\ proc[p].ret.last_name = "ln"

\* C20: after a login that failed in a hook, the stored flags of its user
\* are the flags from before the login, and the defaults of a new row when
\* the login inserted the user.
C20_FailedHookKeepsFlags ==
    \A p \in Procs :
        (proc[p].pc = "failed" /\ proc[p].err = "HookError") =>
            \E u \in users :
                /\ u.id = proc[p].user.id
                /\ IF proc[p].created
                   THEN ~u.is_staff /\ ~u.is_superuser
                   ELSE \E v \in snap.users :
                            /\ v.id = u.id
                            /\ v.is_staff = u.is_staff
                            /\ v.is_superuser = u.is_superuser

C20_Witness ==
    \E p \in Procs :
        /\ proc[p].pc = "failed"
        /\ proc[p].err = "HookError"
        /\ Len(proc[p].hookLog) = 3
        /\ ~proc[p].created
        /\ proc[p].user.is_superuser
        /\ \E u \in users : u.id = proc[p].user.id /\ ~u.is_superuser

====
